---- MODULE Spec2Model ----
(***************************************************************************)
(* State-machine model of the push-to-talk dictation tool                  *)
(* (src/deepgram_dictation.py): AudioRecorder, DeepgramTranscriber,        *)
(* the websocket transport thread of every connection, and DictationApp.   *)
(* ConfigManager (src/config_manager.py) is modelled next to it: its       *)
(* dictionaries are trees, and the nested dicts that DEFAULT_CONFIG and an *)
(* instance's config share after a shallow copy are tracked in `shared`.   *)
(*                                                                         *)
(* Time is counted in whole seconds: clock is the number of full seconds   *)
(* the calling thread has spent in its current wait.  The poll loop sleeps *)
(* 0.1 s per iteration; one Poll step that advances the clock stands for   *)
(* the iterations of one second, and the loop condition can be evaluated   *)
(* (and the loop left) at any moment in between.                           *)
(* Python None is the string "None"; transcripts are other strings.        *)
(***************************************************************************)
EXTENDS Integers, Sequences, FiniteSets, TLC

\* ---------------------------------------------------------------- bounds
\* number of transcribe_audio calls (one connection each) a caller makes
MaxCalls == 2
\* number of utterances the application transcribes
MaxAppCalls == 1
\* number of audio chunks the device delivers in a run
MaxChunks == 1

\* ------------------------------------------------------ program constants
\* connection_event.wait(timeout=5), seconds
ConnectTimeout == 5
\* (time.time() - start_time) < 10, seconds
ResultTimeout == 10
\* chunk_size 1024 samples at 16000 Hz: 64 ms of audio per chunk
ChunkMs == 64

None == "None"
\* non-empty transcripts the remote may send
Texts == {"alpha", "beta"}
ConnId == 1..MaxCalls
\* configured min_recording_duration values (ms) the runs start from
MinDurations == {64, 500}

\* inbound frames: text that parses as a JSON record with a type and a
\* first-alternative transcript, or text that is not JSON at all
Messages ==
    {[json |-> TRUE, type |-> ty, transcript |-> tr] :
        ty \in {"Results", "Metadata"}, tr \in Texts \cup {""}}
    \cup {[json |-> FALSE, type |-> "", transcript |-> ""]}

\* AudioRecorder.stop_recording, lines 107-116: the recorded chunks wrapped
\* in a WAV container
Wav(fr) == [channels |-> 1, sampwidth |-> 2, framerate |-> 16000, data |-> fr]

\* Python None where audio bytes are expected
NoAudio == [channels |-> 0, sampwidth |-> 0, framerate |-> 0, data |-> <<>>]

\* outbound frames
BinaryFrame(data) == [opcode |-> "binary", data |-> data]
CloseStreamFrame == [opcode |-> "text", data |-> "CloseStream"]

VARIABLES
    \* DictationApp
    is_recording, preview_mode, running, ctrl_pressed, status,
    last_transcription, clipboard, saved, config, listener, apc, logger,
    \* AudioRecorder
    rec_is_recording, stream, frames, delivered, leaked, armedAt,
    \* DeepgramTranscriber
    tpc, ws, transcription_result, connection_event, clock, audio_data, ret,
    \* websocket connections (one transport thread each)
    conn, sent, closeCalls,
    \* history variables
    calls, first_result, result_from, errored, openedInTime, received,
    lastCase, starts,
    \* ConfigManager: the class-level defaults, the instance's config, the
    \* top-level keys whose nested dict the two share, the exception the
    \* last operation let escape, the number of operations so far
    DEFAULT_CONFIG, self_config, shared, raised, cfg_ops,
    \* the keyboard: the ESC key that discarded a preview is still held down
    esc_down

cfgVars == <<DEFAULT_CONFIG, self_config, shared, raised, cfg_ops>>
coreVars == <<is_recording, preview_mode, running, ctrl_pressed, status,
              last_transcription, clipboard, saved, config, listener, apc,
              logger>>
appVars == <<coreVars, cfgVars, esc_down>>
recVars == <<rec_is_recording, stream, frames, delivered, leaked,
             armedAt>>
trVars == <<tpc, ws, transcription_result, connection_event, clock,
            audio_data, ret>>
connVars == <<conn, sent, closeCalls>>
histVars == <<calls, first_result, result_from, errored, openedInTime,
              received>>
opVars == <<lastCase, starts>>
vars == <<appVars, recVars, trVars, connVars, histVars, opVars>>

\* ===================================================== DeepgramTranscriber

\* a transcribe_audio call is between its first line and its return
InCall == tpc \notin {"idle", "returned"}

\* Qualifies without the test of the transcript
QualifiesEmptyToo(m) == m.json /\ m.type = "Results"

\* Qualifies without the test of the type
QualifiesAnyType(m) == m.json /\ m.transcript # ""

\* _on_message, lines 228-230: the record counts when its type is 'Results'
\* and its first alternative carries a non-empty transcript
Qualifies(m) == m.json /\ m.type = "Results" /\ m.transcript # ""

\* _on_message, line 243: the value of the result cell after record m
on_message_cell(cell, m) == IF Qualifies(m) THEN m.transcript ELSE cell

\* AfterConnectWait ignoring the result of the wait
AfterConnectWaitIgnored(signalled) == "send_audio"

\* transcribe_audio, lines 193-195: where the call goes after the connect
\* wait returned signalled (TRUE) or timed out (FALSE)
AfterConnectWait(signalled) == IF signalled THEN "send_audio" ELSE "returned"

\* FirstFrame with the two sends swapped
FirstFrameControl(data) == CloseStreamFrame

\* transcribe_audio, line 198: the first outbound frame
FirstFrame(data) == BinaryFrame(data)

\* a resend of the payload in its place
SecondFramePayload == BinaryFrame(audio_data)

\* transcribe_audio, line 201: the second outbound frame
SecondFrame == CloseStreamFrame

\* transcribe_audio, line 205: the poll loop goes on
PollContinues(cell, elapsed) == cell = None /\ elapsed < ResultTimeout

\* ws_close without the close
ws_close_skipped(cc, c) == cc

\* transcribe_audio, lines 209-210: close calls after "if self.ws: self.ws.close()"
ws_close(cc, c) == [cc EXCEPT ![c] = @ + 1]

\* WebSocketApp.send: a frame goes out only on an open connection,
\* otherwise the call raises
CanSend(c) == conn[c] = "open"

\* transcribe_audio, lines 155-190: reset the cell and the event, create the
\* connection and start its transport thread
TranscribeBegin(data) ==
    /\ calls < MaxCalls
    /\ transcription_result' = None
    /\ connection_event' = FALSE
    /\ ws' = calls + 1
    /\ conn' = [conn EXCEPT ![calls + 1] = "connecting"]
    /\ calls' = calls + 1
    /\ audio_data' = data
    /\ clock' = 0
    /\ tpc' = "wait_conn"
    /\ first_result' = None
    /\ result_from' = 0
    /\ received' = "none"
    /\ errored' = FALSE
    /\ UNCHANGED <<ret, sent, closeCalls, openedInTime>>

\* transcribe_audio, line 193: connection_event.wait(timeout=5), one tick of
\* waiting while the event is not set
ConnectWaitTick ==
    /\ tpc = "wait_conn"
    /\ ~connection_event
    /\ clock < ConnectTimeout
    /\ clock' = clock + 1
    /\ UNCHANGED <<appVars, recVars, connVars, histVars, opVars, tpc, ws,
                   transcription_result, connection_event, audio_data, ret>>

\* transcribe_audio, lines 193-195: the wait returns, signalled or timed out
ConnectWaitReturn ==
    /\ tpc = "wait_conn"
    /\ connection_event \/ clock = ConnectTimeout
    /\ tpc' = AfterConnectWait(connection_event)
    /\ ret' = IF AfterConnectWait(connection_event) = "returned"
              THEN None ELSE ret
    /\ UNCHANGED <<appVars, recVars, connVars, histVars, opVars, ws, clock,
                   transcription_result, connection_event, audio_data>>

\* transcribe_audio, line 198 (and 214-216 when the send raises)
SendAudio ==
    /\ tpc = "send_audio"
    /\ IF CanSend(ws)
       THEN /\ sent' = [sent EXCEPT ![ws] = Append(@, FirstFrame(audio_data))]
            /\ tpc' = "send_close"
            /\ ret' = ret
       ELSE /\ sent' = sent
            /\ tpc' = "returned"
            /\ ret' = None
    /\ UNCHANGED <<appVars, recVars, histVars, opVars, ws, clock,
                   transcription_result, connection_event, audio_data,
                   conn, closeCalls>>

\* transcribe_audio, lines 201-204 (and 214-216 when the send raises)
SendClose ==
    /\ tpc = "send_close"
    /\ IF CanSend(ws)
       THEN /\ sent' = [sent EXCEPT ![ws] = Append(@, SecondFrame)]
            /\ tpc' = "poll"
            /\ clock' = 0
            /\ ret' = ret
       ELSE /\ sent' = sent
            /\ tpc' = "returned"
            /\ clock' = clock
            /\ ret' = None
    /\ UNCHANGED <<appVars, recVars, histVars, opVars, ws,
                   transcription_result, connection_event, audio_data, conn,
                   closeCalls>>

\* transcribe_audio, lines 205-206: one iteration of the poll loop
Poll ==
    /\ tpc = "poll"
    /\ IF PollContinues(transcription_result, clock)
       THEN /\ clock' = clock + 1
            /\ tpc' = tpc
       ELSE /\ clock' = clock
            /\ tpc' = "close"
    /\ UNCHANGED <<appVars, recVars, connVars, histVars, opVars, ws,
                   transcription_result, connection_event, audio_data, ret>>

\* transcribe_audio, lines 209-212: close the connection, return the cell
CloseAndReturn ==
    /\ tpc = "close"
    /\ closeCalls' = ws_close(closeCalls, ws)
    /\ conn' = [conn EXCEPT ![ws] = IF @ = "open" THEN "closing" ELSE @]
    /\ ret' = transcription_result
    /\ tpc' = "returned"
    /\ UNCHANGED <<appVars, recVars, histVars, opVars, ws, clock,
                   transcription_result, connection_event, audio_data, sent>>

\* the steps of the thread that runs transcribe_audio
TranscriberStep ==
    \/ ConnectWaitTick
    \/ ConnectWaitReturn
    \/ SendAudio
    \/ SendClose
    \/ Poll
    \/ CloseAndReturn

\* ============================================= websocket transport threads

\* the record is an interim one: parsed, but its type is not 'Results'
IsInterim(m) == m.json /\ m.type # "Results"

\* run_forever connected: _on_open, lines 218-221
ConnOpen(c) ==
    /\ conn[c] = "connecting"
    /\ conn' = [conn EXCEPT ![c] = "open"]
    /\ connection_event' = TRUE
    /\ openedInTime' =
          IF c = ws /\ (tpc = "wait_conn" \/
                       (tpc \in {"send_audio", "send_close"}
                          /\ connection_event))
          THEN openedInTime \cup {c} ELSE openedInTime
    /\ UNCHANGED <<appVars, recVars, opVars, tpc, ws, transcription_result,
                   clock, audio_data, ret, sent, closeCalls, calls,
                   first_result, result_from, errored, received>>

\* run_forever failed: _on_error, lines 248-251; the thread ends
ConnError(c) ==
    /\ conn[c] \in {"connecting", "open"}
    /\ conn' = [conn EXCEPT ![c] = "dead"]
    /\ connection_event' = TRUE
    /\ errored' = (errored \/ (c = ws /\ InCall))
    /\ UNCHANGED <<appVars, recVars, opVars, tpc, ws, transcription_result,
                   clock, audio_data, ret, sent, closeCalls, calls,
                   first_result, result_from, openedInTime, received>>

\* a frame arrives: _on_message, lines 223-246.  After ws.close() the thread
\* may still dispatch the one frame it had already read.
ConnMessage(c, m) ==
    /\ conn[c] \in {"open", "closing"}
    /\ conn' = [conn EXCEPT ![c] = IF @ = "closing" THEN "dead" ELSE @]
    /\ transcription_result' = on_message_cell(transcription_result, m)
    /\ first_result' =
          IF first_result = None /\ InCall
             /\ on_message_cell(None, m) # None
          THEN on_message_cell(None, m) ELSE first_result
    /\ result_from' = IF InCall /\ on_message_cell(None, m) # None
                      THEN c ELSE result_from
    /\ received' = IF ~InCall THEN received
                   ELSE IF IsInterim(m) /\ received \in {"none", "interim"}
                        THEN "interim" ELSE "other"
    /\ UNCHANGED <<appVars, recVars, opVars, tpc, ws, connection_event,
                   clock, audio_data, ret, sent, closeCalls, calls, errored,
                   openedInTime>>

\* the remote end closes, or the thread ends after ws.close():
\* _on_close, lines 253-255, only logs
ConnClosed(c) ==
    /\ conn[c] \in {"open", "closing"}
    /\ conn' = [conn EXCEPT ![c] = "dead"]
    /\ UNCHANGED <<appVars, recVars, trVars, histVars, opVars, sent,
                   closeCalls>>

\* the steps of the transport threads, with inbound frames drawn from msgs
TransportStepOf(msgs) ==
    \/ \E c \in ConnId : ConnOpen(c)
    \/ \E c \in ConnId : ConnError(c)
    \/ \E c \in ConnId, m \in msgs : ConnMessage(c, m)
    \/ \E c \in ConnId : ConnClosed(c)

TransportStep == TransportStepOf(Messages)

\* ========================================================== ConfigManager
\* (src/config_manager.py).  A configuration is a tree of dicts with scalar
\* leaves.  A tree is written down as a function from paths (the sequences
\* of keys leading to a node) to the node found there: a scalar, DictMark
\* for a nested dict, Absent where no such key exists.  A dotted key
\* 'a.b' is the path <<"a", "b">> that key.split('.') makes of it.

\* number of load_config and set calls in a run
MaxCfgOps == 3
\* nesting levels of the configurations looked at
CfgDepth == 2
CfgKeys == {"preview_mode", "logging", "enabled", "level"}
CfgScalars == {"True", "False", "INFO", "DEBUG"}
Absent == "<absent>"
DictMark == "<dict>"
CfgPaths == UNION {[1..n -> CfgKeys] : n \in 1..CfgDepth}
Prefix(key, i) == SubSeq(key, 1, i)
ProperPrefix(p, q) == Len(p) < Len(q) /\ Prefix(q, Len(p)) = p
TreeOf(f) == [q \in CfgPaths |-> IF q \in DOMAIN f THEN f[q] ELSE Absent]

\* DEFAULT_CONFIG, lines 20-41, cut down to one scalar key and the nested
\* 'logging' dict with two of its keys
DefaultTree ==
    TreeOf(<<"preview_mode">> :> "True" @@ <<"logging">> :> DictMark
           @@ <<"logging", "enabled">> :> "False"
           @@ <<"logging", "level">> :> "INFO")

\* the top-level keys of a tree that hold a nested dict
DictKeys(t) == {k \in CfgKeys : t[<<k>>] = DictMark}

\* dict.copy() of lines 75 and 82 is shallow: the copy is a new top-level
\* dict whose nested dicts are the very objects of the original
SharedAfterCopy(t) == DictKeys(t)

\* ConfigManager.get, lines 104-123: iteration i of the loop over the keys,
\* the value reached so far being the node at Prefix(key, i - 1)
RECURSIVE get_walk(_, _, _, _)
get_walk(t, key, i, default) ==
    IF i > Len(key) THEN t[key]
    ELSE IF /\ (i = 1 \/ t[Prefix(key, i - 1)] = DictMark)
            /\ t[Prefix(key, i)] # Absent
         THEN get_walk(t, key, i + 1, default)
         ELSE default
get(t, key, default) == get_walk(t, key, 1, default)

\* ConfigManager.set, lines 134-139: the loop over keys[:-1] steps into
\* whatever value an existing key holds; `k not in config` and the item
\* assignment raise TypeError when that value is not a dict
SetRaises(t, key) ==
    \E i \in 1..(Len(key) - 1) : t[Prefix(key, i)] \notin {Absent, DictMark}

\* ConfigManager.set, lines 134-140, when it does not raise: missing levels
\* are created as dicts and the last key is bound to the value
SetTree(t, key, value) ==
    [q \in CfgPaths |->
        IF q = key THEN value
        ELSE IF ProperPrefix(q, key) THEN DictMark
        ELSE IF ProperPrefix(key, q) THEN Absent
        ELSE t[q]]

\* ConfigManager._deep_update, lines 199-210: the node at path q after
\* base has been updated with update, decided by the iteration for the key
\* at level i of q
RECURSIVE deep_update(_, _, _, _)
deep_update(base, update, q, i) ==
    LET r == Prefix(q, i) IN
    IF update[r] = Absent THEN base[q]
    ELSE IF base[r] = DictMark /\ update[r] = DictMark
         THEN IF i = Len(q) THEN DictMark
              ELSE deep_update(base, update, q, i + 1)
         ELSE update[q]

\* what the configuration file on disk is like: not there, a JSON object
\* (tree), text that is not JSON, a file that cannot be opened, bytes that
\* are not UTF-8
FileStates == {"missing", "ok", "bad_json", "io_error", "bad_encoding"}
FileTrees ==
    { TreeOf(<<"logging">> :> DictMark @@ <<"logging", "level">> :> "DEBUG"),
      TreeOf(<<"preview_mode">> :> "False" @@ <<"level">> :> "DEBUG"),
      TreeOf(<<"logging">> :> "False"),
      TreeOf(<<"logging">> :> DictMark
             @@ <<"logging", "preview_mode">> :> "True"
             @@ <<"logging", "enabled">> :> "True"),
      TreeOf(<<"preview_mode">> :> DictMark
             @@ <<"preview_mode", "level">> :> "DEBUG"),
      [q \in CfgPaths |-> Absent] }
Files ==
    {[state |-> "ok", tree |-> t] : t \in FileTrees}
    \cup {[state |-> st, tree |-> [q \in CfgPaths |-> Absent]] :
            st \in FileStates \ {"ok"}}

\* load_config, lines 71-73: what open() and json.load() raise
ReadRaises(f) ==
    CASE f.state = "bad_json" -> "JSONDecodeError"
      [] f.state = "io_error" -> "IOError"
      [] f.state = "bad_encoding" -> "UnicodeDecodeError"
      [] OTHER -> None
\* load_config, line 78: except (json.JSONDecodeError, IOError)
Caught(exc) == exc \in {"JSONDecodeError", "IOError"}

\* dotted keys and values handed to set
SetKeys ==
    {<<"preview_mode">>, <<"logging">>, <<"logging", "enabled">>,
     <<"logging", "level">>, <<"level", "enabled">>,
     <<"preview_mode", "level">>}
SetValues == {"True", "DEBUG"}

\* ============================================================ initial state

\* ConfigManager.DEFAULT_CONFIG, the keys the model reads (duration in ms)
DefaultConfig ==
    [preview_mode |-> TRUE, save_transcriptions |-> FALSE,
     min_recording_duration |-> 500, logging_enabled |-> FALSE]

\* the configurations a run may start from (defaults merged with a file)
Configs ==
    [preview_mode : BOOLEAN, save_transcriptions : BOOLEAN,
     min_recording_duration : MinDurations, logging_enabled : BOOLEAN]

\* DictationApp.__init__, AudioRecorder.__init__, DeepgramTranscriber.__init__
\* with the configuration loaded being one of configs
InitFrom(configs) ==
    /\ config \in configs
    /\ is_recording = FALSE
    /\ preview_mode = config.preview_mode
    /\ running = TRUE
    /\ ctrl_pressed = FALSE
    /\ status = "Ready"
    /\ last_transcription = ""
    /\ clipboard = "old"
    /\ saved = <<>>
    /\ listener = "running"
    /\ apc = "ready"
    /\ logger = IF config.logging_enabled THEN "enabled" ELSE "none"
    /\ rec_is_recording = FALSE
    /\ stream = None
    /\ frames = <<>>
    /\ delivered = 0
    /\ leaked = FALSE
    /\ armedAt = 0
    /\ tpc = "idle"
    /\ ws = 0
    /\ transcription_result = None
    /\ connection_event = FALSE
    /\ clock = 0
    /\ audio_data = NoAudio
    /\ ret = None
    /\ conn = [c \in ConnId |-> "none"]
    /\ sent = [c \in ConnId |-> <<>>]
    /\ closeCalls = [c \in ConnId |-> 0]
    /\ calls = 0
    /\ first_result = None
    /\ result_from = 0
    /\ errored = FALSE
    /\ openedInTime = {}
    /\ received = "none"
    /\ lastCase = "none"
    /\ starts = 0
    /\ DEFAULT_CONFIG = DefaultTree
    /\ self_config = DefaultTree
    /\ shared = DictKeys(DefaultTree)
    /\ raised = None
    /\ cfg_ops = 0
    /\ esc_down = FALSE

Init == InitFrom(Configs)

\* ============================== the transcriber driven directly by a caller

\* audio payloads handed to transcribe_audio
Payloads == {Wav(<<1>>)}

\* a caller invokes transcribe_audio(data) when no call is in progress
TranscribeCall(data) ==
    /\ ~InCall
    /\ TranscribeBegin(data)
    /\ UNCHANGED <<appVars, recVars, opVars>>

SessionInit == Init /\ config = DefaultConfig

SessionNext ==
    \/ \E data \in Payloads : TranscribeCall(data)
    \/ TranscriberStep
    \/ TransportStep

SessionSpec == SessionInit /\ [][SessionNext]_vars

\* the calling thread is scheduled and time passes
SessionLive == SessionSpec /\ WF_vars(TranscriberStep)

\* ============================================================ AudioRecorder

\* FreshFrames keeping the chunks of the recording before
FreshFramesKept == frames

\* AudioRecorder.start_recording, line 72: the chunk list of a new recording
FreshFrames == <<>>

\* AudioRecorder.start_recording, lines 66-87; ok: audio.open succeeded.
\* leaked: a stream that was never closed is no longer referenced;
\* armedAt: the number of chunks delivered before this arming
rec_start_recording(ok) ==
    IF rec_is_recording
    THEN UNCHANGED <<rec_is_recording, stream, frames, leaked, armedAt>>
    ELSE /\ frames' = FreshFrames
         /\ stream' = IF ok THEN "open" ELSE stream
         /\ leaked' = (leaked \/ (ok /\ stream = "open"))
         /\ rec_is_recording' = ok
         /\ armedAt' = IF ok THEN delivered ELSE armedAt

\* AudioRecorder.start_recording, lines 85-87: the device error is re-raised
rec_start_raises(ok) == ~rec_is_recording /\ ~ok

\* AudioRecorder.stop_recording, lines 96-99 and 118-120: the handle after
\* the try block ended normally (ok) or raised in stop_stream or close
StreamAfterStop(ok) == IF ok THEN None ELSE stream

\* AudioRecorder.stop_recording, lines 89-120; ok: nothing raised in the try
rec_stop_recording(ok) ==
    IF ~rec_is_recording
    THEN UNCHANGED <<rec_is_recording, stream, frames, leaked, armedAt>>
    ELSE /\ rec_is_recording' = FALSE
         /\ stream' = StreamAfterStop(ok)
         /\ frames' = frames
         /\ leaked' = leaked
         /\ armedAt' = 0

\* AudioRecorder.stop_recording, lines 92, 116, 120: the value returned, a
\* bare None (pair FALSE) or a pair (audio, duration in ms)
rec_stop_result(ok) ==
    IF ~rec_is_recording
    THEN [pair |-> FALSE, audio |-> NoAudio, duration |-> 0]
    ELSE IF ok
    THEN [pair |-> TRUE, audio |-> Wav(frames),
          duration |-> Len(frames) * ChunkMs]
    ELSE [pair |-> TRUE, audio |-> NoAudio, duration |-> 0]

\* AudioRecorder._audio_callback, lines 122-126: the device delivers the
\* next chunk (chunks are numbered in delivery order)
AudioCallback ==
    /\ stream = "open" \/ leaked
    /\ delivered < MaxChunks
    /\ delivered' = delivered + 1
    /\ frames' = IF rec_is_recording THEN Append(frames, delivered + 1)
                 ELSE frames
    /\ UNCHANGED <<appVars, trVars, connVars, histVars, opVars,
                   rec_is_recording, stream, leaked, armedAt>>

\* ============================================================= DictationApp

\* inbound frames of the application runs: the 'Results' records with one
\* non-empty transcript (any other frame leaves the program's state as it is)
AppMessages ==
    {m \in Messages : m.type = "Results" /\ m.transcript = "alpha"}

CtrlKeys == {"ctrl_l", "ctrl_r"}
Keys == CtrlKeys \cup {"p", "l", "esc", "enter"}

\* StartReturnsEarly without the guard
StartNeverReturnsEarly == FALSE

\* DictationApp.start_recording, lines 400-401
StartReturnsEarly == is_recording

\* DictationApp.stop_recording, lines 416-417
StopReturnsEarly == ~is_recording

\* PressStarts without the tests of the latch and of the recording state
PressStartsAlways == TRUE

\* DictationApp.on_press, line 369
PressStarts == ~ctrl_pressed /\ ~is_recording

\* ReleaseStops without the test of the latch
ReleaseStopsUnlatched == is_recording

\* DictationApp.on_release, line 389
ReleaseStops == ctrl_pressed /\ is_recording

\* LongEnough with a strict comparison
LongEnoughStrict(r) ==
    r.audio # NoAudio /\ r.duration > config.min_recording_duration

\* DictationApp.stop_recording, line 430
LongEnough(r) ==
    r.audio # NoAudio /\ r.duration >= config.min_recording_duration

\* DictationApp.start_recording, lines 398-412.  byListener: the call runs
\* in a key handler, where an escaping exception ends the listener thread
app_start_recording(byListener, ok) ==
    IF StartReturnsEarly
    THEN UNCHANGED <<is_recording, status, listener, rec_is_recording,
                     stream, frames, leaked, armedAt>>
    ELSE /\ is_recording' = TRUE
         /\ status' = "Recording..."
         /\ rec_start_recording(ok)
         /\ listener' = IF byListener /\ rec_start_raises(ok)
                        THEN "stopped" ELSE listener

\* DictationApp.stop_recording, lines 414-432 and 458-462: up to the call of
\* transcribe_audio, where the handler blocks
app_stop_recording(byListener, ok) ==
    IF StopReturnsEarly
    THEN UNCHANGED <<is_recording, status, listener, apc, rec_is_recording,
                     stream, frames, leaked, armedAt, trVars, connVars,
                     histVars>>
    ELSE LET r == rec_stop_result(ok) IN
         /\ is_recording' = FALSE
         /\ rec_stop_recording(ok)
         /\ IF ~r.pair
            THEN \* line 428: unpacking None raises TypeError
                 /\ status' = "Transcribing..."
                 /\ listener' = IF byListener THEN "stopped" ELSE listener
                 /\ UNCHANGED <<apc, trVars, connVars, histVars>>
            ELSE IF LongEnough(r)
            THEN /\ calls < MaxAppCalls
                 /\ status' = "Transcribing..."
                 /\ apc' = "transcribing"
                 /\ TranscribeBegin(r.audio)
                 /\ UNCHANGED listener
            ELSE /\ status' = "Recording too short"
                 /\ UNCHANGED <<listener, apc, trVars, connVars, histVars>>

\* toggle_logging without the branch that sets a logger up
toggle_logging_existing_only ==
    /\ logger' = IF logger = "enabled" THEN "disabled"
                 ELSE IF logger = "disabled" THEN "enabled" ELSE logger
    /\ config' = config

\* DictationLogger.toggle_logging, src/logger.py lines 137-150
toggle_logging ==
    IF logger # "none"
    THEN /\ logger' = IF logger = "enabled" THEN "disabled" ELSE "enabled"
         /\ config' = config
    ELSE /\ config' = [config EXCEPT !.logging_enabled = TRUE]
         /\ logger' = "enabled"

\* the toggle without the set call
PreviewNotStored(flag) == config

\* on_press, line 377: self.config.set('preview_mode', self.preview_mode)
PreviewStored(flag) == [config EXCEPT !.preview_mode = flag]

\* the press branch without the assignment of the latch
LatchOnPressKept == ctrl_pressed

\* on_press, line 370: self.ctrl_pressed = True
LatchOnPress == TRUE

\* DictationApp.on_press, lines 364-383
OnPress(key) ==
    /\ listener = "running"
    /\ apc = "ready"
    /\ lastCase' = IF key \in CtrlKeys /\ ctrl_pressed
                   THEN "press_latched" ELSE "none"
    /\ starts' = IF key \in CtrlKeys /\ PressStarts
                 THEN (IF starts < 2 THEN starts + 1 ELSE starts)
                 ELSE starts
    /\ IF key \in CtrlKeys
       THEN /\ IF PressStarts
               THEN /\ ctrl_pressed' = LatchOnPress
                    /\ \E ok \in BOOLEAN : app_start_recording(TRUE, ok)
               ELSE UNCHANGED <<ctrl_pressed, is_recording, status, listener,
                                rec_is_recording, stream, frames, leaked,
                                armedAt>>
            /\ UNCHANGED <<preview_mode, config, logger>>
       ELSE /\ IF key = "p"
               THEN /\ preview_mode' = ~preview_mode
                    /\ config' = PreviewStored(preview_mode')
                    /\ logger' = logger
               ELSE IF key = "l"
               THEN toggle_logging /\ preview_mode' = preview_mode
               ELSE UNCHANGED <<preview_mode, config, logger>>
            /\ UNCHANGED <<ctrl_pressed, is_recording, status, listener,
                           rec_is_recording, stream, frames, leaked, armedAt>>
    /\ UNCHANGED <<running, last_transcription, clipboard, saved, apc,
                   delivered, trVars, connVars, histVars>>
    /\ UNCHANGED <<cfgVars, esc_down>>

\* DictationApp.on_release, lines 385-396
OnRelease(key) ==
    /\ listener = "running"
    /\ apc = "ready"
    /\ lastCase' = IF key \in CtrlKeys /\ ~ctrl_pressed
                   THEN "release_unlatched" ELSE "none"
    /\ starts' = IF key \in CtrlKeys /\ ReleaseStops THEN 0 ELSE starts
    /\ IF key \in CtrlKeys
       THEN /\ IF ReleaseStops
               THEN /\ ctrl_pressed' = FALSE
                    /\ \E ok \in BOOLEAN : app_stop_recording(TRUE, ok)
               ELSE UNCHANGED <<ctrl_pressed, is_recording, status, listener,
                                apc, rec_is_recording, stream, frames,
                                leaked, armedAt,
                                trVars, connVars, histVars>>
            /\ running' = running
       ELSE /\ IF key = "esc"
               THEN running' = FALSE /\ listener' = "stopped"
               ELSE UNCHANGED <<running, listener>>
            /\ UNCHANGED <<ctrl_pressed, is_recording, status, apc,
                           rec_is_recording, stream, frames, leaked,
                           armedAt, trVars,
                           connVars, histVars>>
    /\ UNCHANGED <<preview_mode, config, logger, last_transcription,
                   clipboard, saved, delivered>>
    /\ UNCHANGED cfgVars
    /\ esc_down' = IF key = "esc" THEN FALSE ELSE esc_down

\* saving tied to the clipboard write
save_transcription_if_copied(text, ok) ==
    IF config.save_transcriptions /\ ok /\ clipboard' = text
    THEN Append(saved, text) ELSE saved

\* DictationApp.save_transcription, lines 464-483; ok: the file was written
save_transcription(text, ok) ==
    IF config.save_transcriptions /\ ok THEN Append(saved, text) ELSE saved

\* HasText without the test
HasTextAlways(text) == TRUE

\* DictationApp.stop_recording, line 434: "if text"
HasText(text) == text # None /\ text # ""

\* ShowsPreview without the test of the mode
ShowsPreviewNever == FALSE

\* DictationApp.stop_recording, line 438
ShowsPreview == preview_mode

\* ClipboardAfterPreview copying whatever the decision
ClipboardAfterPreviewAlways(accept, text) == text

\* DictationApp.stop_recording, lines 439-445: the clipboard after the
\* decision made in show_preview
ClipboardAfterPreview(accept, text) == IF accept THEN text ELSE clipboard

\* DictationApp.stop_recording, line 462: the handler returns, the locals of
\* the finished transcribe_audio call (start_time, the payload, the text)
\* and the history of that call are gone
CallForgotten ==
    /\ tpc' = "idle"
    /\ clock' = 0
    /\ ret' = None
    /\ audio_data' = NoAudio
    /\ first_result' = None
    /\ result_from' = 0
    /\ received' = "none"
    /\ errored' = FALSE
    /\ UNCHANGED <<ws, transcription_result, connection_event, calls,
                   openedInTime>>

\* DictationApp.stop_recording, lines 432-462: transcribe_audio has returned
AfterTranscribe(ok) ==
    /\ apc = "transcribing"
    /\ tpc = "returned"
    /\ IF HasText(ret)
       THEN /\ last_transcription' = ret
            /\ IF ShowsPreview
               THEN /\ apc' = "preview"
                    /\ UNCHANGED <<clipboard, status, saved, trVars,
                                   histVars>>
               ELSE /\ clipboard' = ret
                    /\ status' = "Copied!"
                    /\ saved' = save_transcription(ret, ok)
                    /\ apc' = "ready"
                    /\ CallForgotten
       ELSE /\ status' = "Transcription failed"
            /\ apc' = "ready"
            /\ CallForgotten
            /\ UNCHANGED <<last_transcription, clipboard, saved>>
    /\ UNCHANGED <<is_recording, preview_mode, running, ctrl_pressed, config,
                   listener, logger, recVars, connVars, opVars>>
    /\ UNCHANGED <<cfgVars, esc_down>>

\* show_preview, lines 356-362: the decision is taken on the key-down of
\* ENTER or ESC; after a discard the ESC key is still down, and its release
\* reaches the hotkey listener like that of any key (keyboard.Events does
\* not take events away from other listeners)
EscHeldAfter(accept) == ~accept

\* DictationApp.show_preview, lines 340-362, and stop_recording, lines
\* 439-462: the user accepts (ENTER) or discards (ESC) the previewed text
PreviewDecide(accept, ok) ==
    /\ apc = "preview"
    /\ clipboard' = ClipboardAfterPreview(accept, ret)
    /\ status' = IF accept THEN "Copied!" ELSE "Discarded"
    /\ saved' = save_transcription(ret, ok)
    /\ apc' = "ready"
    /\ CallForgotten
    /\ UNCHANGED <<is_recording, preview_mode, running, ctrl_pressed,
                   last_transcription, config, listener, logger, recVars,
                   connVars, opVars>>
    /\ UNCHANGED cfgVars
    /\ esc_down' = EscHeldAfter(accept)

\* DictationApp.run, lines 520-529, and cleanup, lines 531-541, with
\* AudioRecorder.cleanup, lines 128-132: the listener has ended
Cleanup ==
    /\ listener = "stopped"
    /\ apc = "ready"
    /\ apc' = "exited"
    /\ stream' = IF stream = "open" THEN "closed" ELSE stream
    /\ leaked' = FALSE
    /\ UNCHANGED <<is_recording, preview_mode, running, ctrl_pressed, status,
                   last_transcription, clipboard, saved, config, listener,
                   logger, rec_is_recording, frames, delivered, armedAt,
                   trVars,
                   connVars, histVars, opVars>>
    /\ UNCHANGED <<cfgVars, esc_down>>

\* the program as main() runs it: key events drive the application
Next ==
    \/ \E key \in Keys : OnPress(key)
    \/ \E key \in Keys : OnRelease(key)
    \/ AudioCallback
    \/ TranscriberStep
    \/ TransportStepOf(AppMessages)
    \/ \E ok \in BOOLEAN : AfterTranscribe(ok)
    \/ \E accept \in BOOLEAN, ok \in BOOLEAN : PreviewDecide(accept, ok)
    \/ Cleanup

Spec == Init /\ [][Next]_vars

\* ------------- the orchestrator's commands issued directly, in any order

\* StartRecording: DictationApp.start_recording called by a client
CmdStartRecording(ok) ==
    /\ apc = "ready"
    /\ lastCase' = IF is_recording THEN "start_while_recording" ELSE "none"
    /\ starts' = starts
    /\ app_start_recording(FALSE, ok)
    /\ UNCHANGED <<preview_mode, running, ctrl_pressed, last_transcription,
                   clipboard, saved, config, apc, logger, delivered, trVars,
                   connVars, histVars>>
    /\ UNCHANGED <<cfgVars, esc_down>>

\* StopRecording: DictationApp.stop_recording called by a client
CmdStopRecording(ok) ==
    /\ apc = "ready"
    /\ lastCase' = IF ~is_recording THEN "stop_while_idle" ELSE "none"
    /\ starts' = 0
    /\ app_stop_recording(FALSE, ok)
    /\ UNCHANGED <<preview_mode, running, ctrl_pressed, last_transcription,
                   clipboard, saved, config, logger, delivered>>
    /\ UNCHANGED <<cfgVars, esc_down>>

\* keys of the push-to-talk and quit handling
CmdKeys == CtrlKeys \cup {"esc"}

\* the default configuration with a minimum duration of one chunk
CmdInit ==
    Init /\ config = [DefaultConfig EXCEPT !.min_recording_duration = ChunkMs]

CmdNext ==
    \/ \E ok \in BOOLEAN : CmdStartRecording(ok)
    \/ \E ok \in BOOLEAN : CmdStopRecording(ok)
    \/ \E key \in CmdKeys : OnPress(key)
    \/ \E key \in CmdKeys : OnRelease(key)
    \/ AudioCallback
    \/ TranscriberStep
    \/ TransportStepOf(AppMessages)
    \/ \E ok \in BOOLEAN : AfterTranscribe(ok)
    \/ \E accept \in BOOLEAN, ok \in BOOLEAN : PreviewDecide(accept, ok)
    \/ Cleanup

CmdSpec == CmdInit /\ [][CmdNext]_vars

\* ------ push-to-talk alone, for every configured minimum duration and none

\* the default configuration with each minimum duration, 0 included
DurationConfigs ==
    {[DefaultConfig EXCEPT !.min_recording_duration = d] :
        d \in MinDurations \cup {0}}

DurationInit == InitFrom(DurationConfigs)

DurationNext ==
    \/ \E key \in CmdKeys : OnPress(key)
    \/ \E key \in CmdKeys : OnRelease(key)
    \/ AudioCallback
    \/ TranscriberStep
    \/ TransportStepOf(AppMessages)
    \/ \E ok \in BOOLEAN : AfterTranscribe(ok)
    \/ \E accept \in BOOLEAN, ok \in BOOLEAN : PreviewDecide(accept, ok)
    \/ Cleanup

DurationSpec == DurationInit /\ [][DurationNext]_vars

\* ============================ ConfigManager driven directly by a caller

\* ConfigManager.__init__ (lines 43-62) with load_config (lines 64-82): a
\* ConfigManager is created for the file f; the model follows the newest
\* instance.  An exception that load_config lets escape aborts the
\* construction.
load_config(f) ==
    /\ cfg_ops < MaxCfgOps
    /\ cfg_ops' = cfg_ops + 1
    /\ LET exc == ReadRaises(f) IN
       IF f.state = "missing" \/ (exc # None /\ Caught(exc))
       THEN /\ self_config' = DEFAULT_CONFIG
            /\ shared' = SharedAfterCopy(DEFAULT_CONFIG)
            /\ raised' = None
            /\ UNCHANGED DEFAULT_CONFIG
       ELSE IF exc # None
       THEN /\ raised' = exc
            /\ UNCHANGED <<DEFAULT_CONFIG, self_config, shared>>
       ELSE LET merged == [q \in CfgPaths |->
                              deep_update(DEFAULT_CONFIG, f.tree, q, 1)]
                recursed == {k \in SharedAfterCopy(DEFAULT_CONFIG) :
                                f.tree[<<k>>] = DictMark}
            IN  /\ self_config' = merged
                /\ DEFAULT_CONFIG' =
                       [q \in CfgPaths |->
                           IF Len(q) > 1 /\ q[1] \in recursed
                           THEN merged[q] ELSE DEFAULT_CONFIG[q]]
                /\ shared' = {k \in SharedAfterCopy(DEFAULT_CONFIG) :
                                 f.tree[<<k>>] \in {Absent, DictMark}}
                /\ raised' = None
    /\ UNCHANGED <<coreVars, recVars, trVars, connVars, histVars, opVars,
                   esc_down>>

\* ConfigManager.set, lines 125-140
set(key, value) ==
    /\ cfg_ops < MaxCfgOps
    /\ cfg_ops' = cfg_ops + 1
    /\ IF SetRaises(self_config, key)
       THEN /\ raised' = "TypeError"
            /\ UNCHANGED <<DEFAULT_CONFIG, self_config, shared>>
       ELSE /\ raised' = None
            /\ self_config' = SetTree(self_config, key, value)
            /\ DEFAULT_CONFIG' =
                   IF Len(key) > 1 /\ key[1] \in shared
                   THEN SetTree(DEFAULT_CONFIG, key, value)
                   ELSE DEFAULT_CONFIG
            /\ shared' = IF Len(key) = 1 THEN shared \ {key[1]} ELSE shared
    /\ UNCHANGED <<coreVars, recVars, trVars, connVars, histVars, opVars,
                   esc_down>>

ConfigInit == InitFrom({DefaultConfig})

ConfigNext ==
    \/ \E f \in Files : load_config(f)
    \/ \E key \in SetKeys, value \in SetValues : set(key, value)

ConfigSpec == ConfigInit /\ [][ConfigNext]_vars

\* ================================================================== claims

\* the program's own state, without the history variables
progVars == <<appVars, recVars, trVars, connVars>>

\* the session of connection c reached the wait for the result
ReachedWait(c) == Len(sent[c]) = 2

\* C1: once _on_message has stored a transcript in the result cell during a
\* session, later records leave the cell unchanged and transcribe_audio
\* returns the first stored transcript.
C1_WriteOnce ==
    /\ InCall /\ first_result # None => transcription_result = first_result
    /\ tpc = "returned" /\ first_result # None => ret = first_result

\* C2: every call of transcribe_audio ends: each wait is bounded by its
\* timeout (5 s connect, 10 s result), the calling thread always has a next
\* step until it returns, and it returns a non-empty transcript or None.
C2_BoundedOutcome ==
    /\ [](/\ tpc = "wait_conn" => clock <= ConnectTimeout
          /\ tpc = "poll" => clock <= ResultTimeout
          /\ tpc = "returned" => ret \in Texts \cup {None}
          /\ ret # "")
    /\ (InCall ~> tpc = "returned")

\* C2 witness: a call that sent both frames, heard nothing for the whole
\* result timeout and returned None
C2_Witness ==
    /\ tpc = "returned" /\ ReachedWait(ws) /\ received = "none"
    /\ clock = ResultTimeout /\ ret = None

C4_NoSendWithoutOpen ==
    \A c \in ConnId :
        c \notin openedInTime =>
            /\ sent[c] = <<>>
            /\ c = ws /\ tpc = "returned" => ret = None

\* C4 witness: the connect wait timed out, the call returned, the connection
\* opened afterwards and still carries no frame
C4_Witness ==
    /\ tpc = "returned" /\ ws \notin openedInTime /\ clock = ConnectTimeout
    /\ conn[ws] = "open" /\ sent[ws] = <<>> /\ ret = None

\* C5 as stated: a session that sent anything has sent exactly the binary
\* payload frame followed by exactly one CloseStream message.
C5_BothFramesSent ==
    tpc = "returned" /\ sent[ws] # <<>> =>
        sent[ws] = <<BinaryFrame(audio_data), CloseStreamFrame>>

\* C5 amended: the frames sent on a connection are a prefix of (the binary
\* frame with the whole payload, the CloseStream message), and the wait for
\* the result starts only after both were sent.
C5_FrameOrder ==
    /\ \A c \in ConnId :
          /\ Len(sent[c]) <= 2
          /\ Len(sent[c]) >= 1 => sent[c][1].opcode = "binary"
          /\ Len(sent[c]) = 2 => sent[c][2] = CloseStreamFrame
    /\ ws # 0 /\ sent[ws] # <<>> => sent[ws][1] = BinaryFrame(audio_data)
    /\ tpc \in {"poll", "close"} => ReachedWait(ws)

\* C5 witness: the result wait has started after both sends
C5_Witness ==
    /\ tpc = "poll"
    /\ sent[ws] = <<BinaryFrame(audio_data), CloseStreamFrame>>

\* C6: after a transport error was reported on the connection of the
\* running call, the caller spends no further time in the connect wait or
\* in the result wait.
C6_ErrorUnblocks ==
    [][errored /\ tpc \in {"wait_conn", "poll"} => clock' = clock]_vars

\* C7: a connection is closed at most once; once its session has left the
\* wait for the result it has been closed exactly once and is not open.
C7_ClosedOnce ==
    \A c \in ConnId :
        /\ closeCalls[c] <= 1
        /\ closeCalls[c] = 1 => conn[c] \in {"closing", "dead"}
        /\ ReachedWait(c) =>
              closeCalls[c] = IF c = ws /\ tpc \in {"poll", "close"}
                              THEN 0 ELSE 1

\* C7 witness: the wait ended by the result timeout and the connection was
\* closed once
C7_Witness ==
    /\ tpc = "returned" /\ ReachedWait(ws) /\ clock = ResultTimeout
    /\ ret = None /\ closeCalls[ws] = 1

\* C8: the text a call returns was received on the connection that this
\* call opened.
C8_OwnConnection ==
    tpc = "returned" /\ ret # None => result_from = ws

\* C9: StartRecording issued while recording, and StopRecording issued while
\* not recording, change nothing of the program's state.
C9_Idempotent ==
    [][/\ (is_recording /\ \E ok \in BOOLEAN : CmdStartRecording(ok))
            => UNCHANGED progVars
       /\ (~is_recording /\ \E ok \in BOOLEAN : CmdStopRecording(ok))
            => UNCHANGED progVars]_vars

\* C9 witness: StartRecording was issued while recording
C9_Witness ==
    /\ lastCase = "start_while_recording" /\ is_recording
    /\ status = "Recording..."

\* C10: a release of a Ctrl key while no press is latched changes nothing of
\* the program's state.
C10_UnlatchedRelease ==
    [][(~ctrl_pressed /\ \E key \in CtrlKeys : OnRelease(key))
          => UNCHANGED progVars]_vars

\* C10 witness: a Ctrl release arrived while a recording started without a
\* press was active, and the recording goes on
C10_Witness ==
    /\ lastCase = "release_unlatched" /\ is_recording /\ rec_is_recording
    /\ ~ctrl_pressed

\* C11: key-down deliveries of the Ctrl keys emit at most one StartRecording
\* until a StopRecording is emitted, and a key-down that arrives while a
\* recording is active changes nothing of the program's state.
C11_SingleStart ==
    /\ [](starts <= 1)
    /\ [][(is_recording /\ \E key \in CtrlKeys : OnPress(key))
            => UNCHANGED progVars]_vars

\* C11 witness: a Ctrl key-down was delivered while the latch was set and
\* the one recording started by the first key-down goes on, with its chunk
C11_Witness ==
    /\ lastCase = "press_latched" /\ starts = 1 /\ ctrl_pressed
    /\ is_recording /\ rec_is_recording /\ frames # <<>>

\* a Ctrl release made the application stop its recording, and the
\* recorder's try block ended normally (ok) or raised (~ok)
ReleaseStopped(ok) ==
    /\ ReleaseStops
    /\ \E key \in CtrlKeys : OnRelease(key)
    /\ app_stop_recording(TRUE, ok)

\* the utterance was discarded as too short, with no other effect
Discarded ==
    /\ status' = "Recording too short"
    /\ apc' = "ready"
    /\ UNCHANGED <<trVars, connVars, calls, clipboard, last_transcription,
                   saved>>

\* transcribe_audio was invoked with the payload and made its connection
Invoked(payload) ==
    /\ apc' = "transcribing" /\ status' = "Transcribing..."
    /\ calls' = calls + 1 /\ conn'[calls + 1] = "connecting"
    /\ audio_data' = payload

\* C12 as stated: on StopRecording transcribe_audio is invoked exactly when
\* the duration obtained from the recorder is at least the configured
\* minimum; otherwise the utterance is discarded with no other effect.
C12_DurationDecides ==
    [][\A ok \in BOOLEAN :
          ReleaseStopped(ok) /\ rec_stop_result(ok).pair =>
              IF rec_stop_result(ok).duration >= config.min_recording_duration
              THEN Invoked(rec_stop_result(ok).audio)
              ELSE Discarded]_vars

\* C12 amended: transcribe_audio is invoked exactly when the recorder
\* returned a payload and its duration is at least the configured minimum;
\* otherwise the utterance is discarded with no other effect.
C12_PayloadAndDuration ==
    [][\A ok \in BOOLEAN :
          ReleaseStopped(ok) /\ rec_stop_result(ok).pair =>
              IF /\ rec_stop_result(ok).audio # NoAudio
                 /\ rec_stop_result(ok).duration
                        >= config.min_recording_duration
              THEN Invoked(rec_stop_result(ok).audio)
              ELSE Discarded]_vars

\* C12 witness: a recording of exactly the minimum duration is being
\* transcribed
C12_Witness ==
    /\ apc = "transcribing" /\ tpc = "wait_conn"
    /\ audio_data = Wav(<<1>>) /\ config.min_recording_duration = ChunkMs

\* C13: when the user discards a previewed transcript, the clipboard keeps
\* its content and last_transcription holds the new transcript.
C13_DiscardKeepsClipboard ==
    [][\A ok \in BOOLEAN :
          PreviewDecide(FALSE, ok) =>
              /\ preview_mode
              /\ clipboard' = clipboard
              /\ ret \in Texts /\ last_transcription' = ret]_vars

\* C13 witness: a transcript was discarded, the clipboard still holds its
\* earlier content and last_transcription holds the transcript
C13_Witness ==
    /\ status = "Discarded" /\ apc = "ready" /\ preview_mode
    /\ clipboard = "old" /\ last_transcription = "alpha"

\* C14: when a transcript is obtained, the clipboard is set to exactly that
\* transcript at once if preview mode is off, and on the accept decision if
\* preview mode is on; with preview mode on the clipboard is not written
\* before the decision.
C14_ClipboardWrite ==
    [][/\ \A ok \in BOOLEAN :
            /\ (AfterTranscribe(ok) /\ HasText(ret)) =>
                  IF preview_mode
                  THEN clipboard' = clipboard /\ apc' = "preview"
                  ELSE clipboard' = ret /\ apc' = "ready"
            /\ PreviewDecide(TRUE, ok) => clipboard' = ret /\ ret \in Texts
       /\ (apc = "preview" /\ clipboard' # clipboard)
             => \E ok \in BOOLEAN : PreviewDecide(TRUE, ok)]_vars

\* C14 witness: with preview mode off the transcript was copied without a
\* preview
C14_Witness ==
    /\ ~preview_mode /\ status = "Copied!" /\ apc = "ready"
    /\ clipboard = "alpha" /\ last_transcription = "alpha"

\* C15: when transcribe_audio returned no result, the status becomes
\* 'Transcription failed', the application is ready again without a preview,
\* and the clipboard, last_transcription and the saved files are unchanged.
C15_FailureOnlyStatus ==
    [][\A ok \in BOOLEAN :
          (AfterTranscribe(ok) /\ ret = None) =>
              /\ status' = "Transcription failed"
              /\ apc' = "ready"
              /\ UNCHANGED <<clipboard, last_transcription, saved>>]_vars

\* C15 witness: the connection did not open before the connect wait ended,
\* nothing was sent, and the failure was reported with the clipboard untouched
C15_Witness ==
    /\ status = "Transcription failed" /\ apc = "ready" /\ tpc = "idle"
    /\ conn[ws] = "connecting" /\ sent[ws] = <<>>
    /\ clipboard = "old" /\ last_transcription = "" /\ saved = <<>>

\* C16: every failure is recovered at the orchestrator: unless the user has
\* quit, whenever no command is being handled the hotkey listener is
\* running and the application records only while the capture is armed, so
\* that after a failed arming is_recording is false again.
C16_FailureRecovered ==
    running /\ apc = "ready" =>
        /\ listener = "running"
        /\ is_recording => rec_is_recording

\* C17: Quit sets running to false and ends the hotkey listener, and after
\* the shutdown that follows it the application is not recording, the
\* capture is not armed and no device stream is open.
C17_QuitStopsRecording ==
    /\ ~running => listener = "stopped"
    /\ ~running /\ apc = "exited" =>
          ~is_recording /\ ~rec_is_recording /\ stream # "open"

\* the chunks numbered a+1 .. b, in delivery order
Run(a, b) == [i \in 1..(b - a) |-> a + i]

C19_UnarmedStopConsumed ==
    [][\A ok \in BOOLEAN :
          (is_recording /\ ~rec_is_recording /\ CmdStopRecording(ok)) =>
              /\ rec_stop_result(ok).pair
              /\ rec_stop_result(ok).audio = NoAudio
              /\ UNCHANGED recVars
              /\ status' = "Recording too short"]_vars

\* C20: whenever the capture is not armed no stream handle is held, no
\* stream is ever left open without a reference to it (so at most one is
\* open), and after shutdown no stream is open.
C20_HandleReleased ==
    /\ ~rec_is_recording => stream # "open"
    /\ ~leaked
    /\ apc = "exited" => stream # "open"


\* ------------------------------------------------------------------- C21
\* the tree the claim describes for a file loaded over defaults d: the
\* file's value wherever the file has the key, nothing below a key the
\* file binds to something that is not merged, the default elsewhere
ClaimedMerge(d, u) ==
    [q \in CfgPaths |->
        IF u[q] # Absent THEN u[q]
        ELSE IF \E i \in 1..(Len(q) - 1) :
                    /\ u[Prefix(q, i)] # Absent
                    /\ ~(u[Prefix(q, i)] = DictMark
                         /\ d[Prefix(q, i)] = DictMark)
             THEN Absent
             ELSE d[q]]

\* C21: loading a JSON file over the defaults gives, at every nesting
\* level, the file's value for each key the file has and the original
\* default value for each key it lacks, and keeps keys the defaults do not
\* know.
C21_DeepMerge ==
    [][\A f \in Files :
          (f.state = "ok" /\ load_config(f))
              => self_config' = ClaimedMerge(DefaultTree, f.tree)]_vars

\* ------------------------------------------------------------------- C22
\* the binary frames (audio payloads) sent on connection c
PayloadsSent(c) == {i \in DOMAIN sent[c] : sent[c][i].opcode = "binary"}

\* C22: a transcribe_audio call starts only within a hotkey release that
\* stops a recording, and every such stop that passes the duration check
\* starts exactly one; every call has made exactly one connection, on which
\* the payload goes out at most once; a call that ended without a
\* transcript is reported once as 'Transcription failed' and leaves the
\* application ready, with no further call or connection.
C22_NoRetry ==
    /\ [](/\ Cardinality({c \in ConnId : conn[c] # "none"}) = calls
          /\ \A c \in ConnId : Cardinality(PayloadsSent(c)) <= 1)
    /\ [][/\ calls' # calls =>
                 calls' = calls + 1 /\ \E ok \in BOOLEAN : ReleaseStopped(ok)
          /\ \A ok \in BOOLEAN :
                 (/\ ReleaseStopped(ok)
                  /\ rec_stop_result(ok).pair
                  /\ LongEnough(rec_stop_result(ok))) => calls' = calls + 1
          /\ \A ok \in BOOLEAN :
                 (AfterTranscribe(ok) /\ ~HasText(ret)) =>
                     /\ status' = "Transcription failed" /\ apc' = "ready"
                     /\ tpc' = "idle" /\ calls' = calls
                     /\ UNCHANGED connVars]_vars

\* C22 witness: the one call of a released recording sent its payload once,
\* ended without a transcript and was reported; nothing else was started
C22_Witness ==
    /\ status = "Transcription failed" /\ apc = "ready" /\ tpc = "idle"
    /\ calls = 1 /\ Cardinality(PayloadsSent(1)) = 1
    /\ ~is_recording

\* ------------------------------------------------------------------- C23
\* the handler finishes with a transcript, in auto mode or by the user's
\* decision in the preview; the file write succeeds (ok) or fails (~ok)
Finished(ok) ==
    \/ AfterTranscribe(ok) /\ HasText(ret) /\ ~ShowsPreview
    \/ \E accept \in BOOLEAN : PreviewDecide(accept, ok)

\* C23: when the handler finishes with a transcript, the text is appended
\* to the saved files exactly once if save_transcriptions is enabled and
\* the write succeeds, whether the clipboard was written or not, and
\* nothing is saved otherwise; nothing is saved at any other step (no
\* transcript, recording too short, preview still open); a failed write
\* leaves the clipboard and the status as a successful one does.
C23_SaveIndependent ==
    [][/\ \A ok \in BOOLEAN :
            Finished(ok) =>
                /\ saved' = IF config.save_transcriptions /\ ok
                            THEN Append(saved, ret) ELSE saved
                /\ ret \in Texts
                /\ status' \in {"Copied!", "Discarded"}
                /\ clipboard' = IF status' = "Copied!" THEN ret
                                ELSE clipboard
                /\ (status' = "Discarded") => preview_mode
       /\ saved' # saved => \E ok \in BOOLEAN : Finished(ok)]_vars

\* C23 witness: saving enabled, the user discarded the previewed transcript,
\* the clipboard was not written and the text was saved once
C23_Witness ==
    /\ config.save_transcriptions /\ status = "Discarded" /\ apc = "ready"
    /\ clipboard = "old" /\ saved = <<"alpha">>

\* ------------------------------------------------------------------- C24
\* C24: the configuration's preview_mode always equals the runtime
\* preview_mode flag; a TogglePreview command ('p' key) flips both, so two
\* in a row restore both (each is the negation of a boolean, and nothing
\* else of the configuration changes).
C24_PreviewInConfig ==
    /\ [](config.preview_mode = preview_mode)
    /\ [][OnPress("p") =>
             /\ preview_mode' = ~preview_mode
             /\ config'.preview_mode = ~config.preview_mode
             /\ config' = [config EXCEPT !.preview_mode = preview_mode']]_vars

\* C24 witness: a transcript was discarded in a preview and preview mode
\* was toggled off afterwards, in the flag and in the configuration
C24_Witness ==
    /\ status = "Discarded" /\ apc = "ready"
    /\ ~preview_mode /\ ~config.preview_mode

\* ------------------------------------------------------------------- C25
\* logging is effectively on: a logger is set up and not disabled
LoggingOn == logger = "enabled"

\* C25: every ToggleLogging command ('l' key) turns logging from off to on
\* or from on to off, whether a logger had been set up or not, and changes
\* no recording, preview or session state.
C25_ToggleLogging ==
    [][OnPress("l") =>
          /\ LoggingOn' = ~LoggingOn
          /\ config'.preview_mode = config.preview_mode
          /\ config'.save_transcriptions = config.save_transcriptions
          /\ config'.min_recording_duration = config.min_recording_duration
          /\ UNCHANGED <<is_recording, preview_mode, running, ctrl_pressed,
                         status, last_transcription, clipboard, saved,
                         listener, apc, recVars, trVars, connVars>>]_vars

\* C25 witness: logging was switched off while a recording is going on
C25_Witness ==
    /\ logger = "disabled" /\ is_recording /\ rec_is_recording
    /\ status = "Recording..."

\* ------------------------------------------------------------------- C26
\* C26: creating a ConfigManager for a file that exists but cannot be read
\* or parsed does not abort and gives the configuration that has every
\* default key with its original default value.
C26_FallbackToDefaults ==
    [][\A f \in Files :
          (f.state \in {"bad_json", "io_error", "bad_encoding"}
           /\ load_config(f))
              => raised' = None /\ self_config' = DefaultTree]_vars

\* ------------------------------------------------------------------- C27
\* C27: for every dotted key and value, set(key, value) makes
\* get(key, default) return the value, creates the missing levels of the
\* path and changes no key off the path; get returns the default when a
\* segment is missing or a value on the way is not a dict.
C27_GetAfterSet ==
    /\ [][\A key \in SetKeys, value \in SetValues :
             set(key, value) =>
                 /\ raised' = None
                 /\ get(self_config', key, Absent) = value
                 /\ \A i \in 1..(Len(key) - 1) :
                        self_config'[Prefix(key, i)] = DictMark
                 /\ \A q \in CfgPaths :
                        (~ProperPrefix(q, key) /\ ~ProperPrefix(key, q)
                         /\ q # key) => self_config'[q] = self_config[q]]_vars
    /\ [](\A key \in CfgPaths :
             (\E i \in 1..Len(key) :
                 \/ self_config[Prefix(key, i)] = Absent
                 \/ i < Len(key) /\ self_config[Prefix(key, i)] # DictMark)
                 => get(self_config, key, "default") = "default")

\* ------------------------------------------------------------------- C28
\* C28: DEFAULT_CONFIG keeps its original values at every nesting level
\* through every sequence of load_config and set calls.
C28_DefaultsUntouched == [](DEFAULT_CONFIG = DefaultTree)

\* ------------------------------------------------------------------- C29
\* C29: transcribe_audio attempts to send the payload only after the open
\* callback of the connection made by this call has fired.
C29_SendAfterOwnOpen == [][SendAudio => ws \in openedInTime]_vars

\* ------------------------------------------------------------------- C30
\* C30: whenever transcribe_audio has returned, the connection it made can
\* deliver no callback any more: it is neither still connecting nor open.
C30_ClosedOnReturn ==
    tpc = "returned" => conn[ws] \notin {"connecting", "open"}

\* ------------------------------------------------------------------- C31
\* C31: whenever no command is being handled, the application's
\* is_recording flag equals the recorder's is_recording flag.
C31_FlagsAgree == apc = "ready" => is_recording = rec_is_recording

\* ------------------------------------------------------------------- C32
\* C32: after every handled key event the push-to-talk latch equals the
\* application's is_recording flag, so the guards of the two Ctrl branches
\* never fail together: either a Ctrl press starts a recording or a Ctrl
\* release stops one.
C32_LatchTracksRecording ==
    /\ ctrl_pressed = is_recording
    /\ PressStarts \/ ReleaseStops

\* C32 witness: a recording was started by a Ctrl press and ended by a Ctrl
\* release as too short, other keys having been handled, and the latch is
\* free again with the listener running
C32_Witness ==
    /\ status = "Recording too short" /\ ~ctrl_pressed /\ ~is_recording
    /\ listener = "running" /\ logger = "disabled" /\ delivered = 0

\* ------------------------------------------------------------------- C33
\* C33: the release of the ESC key that discarded a previewed transcript
\* leaves running true and the hotkey listener running.
C33_DiscardKeepsRunning ==
    [][(esc_down /\ OnRelease("esc")) =>
          running' /\ listener' = "running"]_vars

====
